---- MODULE Spec2Model ----
(***************************************************************************)
(* MyHS: a single-directory HTTP file server (src/src/main.rs).            *)
(* serve_handler (GET), upload_handler (POST /upload), the directory       *)
(* lister, serve_file, format_file_size and guess_content_type.            *)
(*                                                                         *)
(* Strings are sequences of one-character strings, so that path parsing,   *)
(* joining, extension lookup and number formatting are computed, not       *)
(* assumed.  The file system is a function from normalised absolute paths  *)
(* (sequences of names) to nodes.                                          *)
(***************************************************************************)
EXTENDS Integers, Sequences, FiniteSets, TLC

VARIABLES
    fs,        \* the live file system: path -> [kind, data]
    up,        \* one upload_handler invocation per uploader
    get,       \* one serve_handler invocation
    stored,    \* history: path -> payload last written in full to it
    finished,  \* history: uploaders in the order their file writes completed
    raced,     \* history: the paths a create hit while another request was writing them
    dir,       \* directory lister: entries as read_dir enumerates them
    rows,      \* directory lister: result of generate_directory_listing
    size,      \* size formatter: the u64 argument, base-1024 limbs
    text,      \* size formatter: the String returned
    fpath,     \* MIME classifier: the path argument
    ctype      \* MIME classifier: the &str returned

vars == <<fs, up, get, stored, finished, raced, dir, rows, size, text, fpath, ctype>>

(***************************** bounds ************************************)

\* multipart parts one upload request may carry
MaxParts == 4
\* the same, for the upload that runs beside a GET request
MaxLiveParts == 2
\* the same, for each of two uploads that run beside each other
MaxRaceParts == 2
\* entries of a listed directory
MaxEntries == 3

(***************************** strings ***********************************)

None == <<"<none>">>

Slash == "/"
EmptyStr == <<>>
DotName == <<".">>
DotDot == <<".", ".">>

S_root == <<"/">>
S_srv == <<"/", "s", "r", "v">>
S_d == <<"d">>
S_etc_rel == <<".", ".", "/", "e", "t", "c">>
S_etc_abs == <<"/", "e", "t", "c">>
S_nodir == <<"n", "o">>
S_report == <<"r", "e", "p", "o", "r", "t", ".", "t", "x", "t">>
S_a == <<"a">>
S_d_report == <<"d", "/", "r", "e", "p", "o", "r", "t", ".", "t", "x", "t">>
S_d_missing == <<"d", "/", "x">>
S_etc_p == <<".", ".", "/", "e", "t", "c", "/", "p">>
S_d_up_up_etc == <<"d", "/", ".", ".", "/", ".", ".", "/", "e", "t", "c">>

N_srv == <<"s", "r", "v">>
N_etc == <<"e", "t", "c">>
N_p == <<"p">>

\* byte values of the characters used (UTF-8 = ASCII here)
CodeOf(c) ==
    CASE c = " " -> 32 [] c = "." -> 46 [] c = "/" -> 47
      [] c = "0" -> 48 [] c = "1" -> 49 [] c = "2" -> 50 [] c = "3" -> 51
      [] c = "4" -> 52 [] c = "5" -> 53 [] c = "6" -> 54 [] c = "7" -> 55
      [] c = "8" -> 56 [] c = "9" -> 57
      [] c = "A" -> 65 [] c = "B" -> 66 [] c = "G" -> 71 [] c = "K" -> 75
      [] c = "M" -> 77 [] c = "T" -> 84 [] c = "X" -> 88 [] c = "Z" -> 90
      [] c = "a" -> 97 [] c = "b" -> 98 [] c = "c" -> 99 [] c = "d" -> 100
      [] c = "e" -> 101 [] c = "n" -> 110 [] c = "o" -> 111 [] c = "p" -> 112
      [] c = "r" -> 114 [] c = "s" -> 115 [] c = "t" -> 116 [] c = "v" -> 118
      [] c = "x" -> 120 [] c = "z" -> 122

RECURSIVE StrLess(_, _)
\* str::cmp: lexicographic by byte, a proper prefix is smaller
StrLess(a, b) ==
    IF b = <<>> THEN FALSE
    ELSE IF a = <<>> THEN TRUE
    ELSE IF CodeOf(Head(a)) < CodeOf(Head(b)) THEN TRUE
    ELSE IF CodeOf(Head(a)) > CodeOf(Head(b)) THEN FALSE
    ELSE StrLess(Tail(a), Tail(b))

(************************ std::path::Path ********************************)

RECURSIVE SplitFrom(_, _, _)
SplitFrom(s, i, cur) ==
    IF i > Len(s) THEN <<cur>>
    ELSE IF s[i] = Slash THEN <<cur>> \o SplitFrom(s, i + 1, <<>>)
    ELSE SplitFrom(s, i + 1, Append(cur, s[i]))

Segments(s) == SplitFrom(s, 1, <<>>)

HasRoot(s) == Len(s) > 0 /\ s[1] = Slash

RECURSIVE KeepFrom(_, _, _)
\* empty segments and "." are dropped; a leading "." of a relative path stays
KeepFrom(segs, i, rooted) ==
    IF i > Len(segs) THEN <<>>
    ELSE IF segs[i] = <<>> \/ (segs[i] = DotName /\ (i > 1 \/ rooted))
    THEN KeepFrom(segs, i + 1, rooted)
    ELSE <<segs[i]>> \o KeepFrom(segs, i + 1, rooted)

\* Path::components, without the RootDir component (see HasRoot): ".." is
\* kept as ParentDir
CompNames(s) == KeepFrom(Segments(s), 1, HasRoot(s))

\* PathBuf::join / push: an absolute argument replaces the base
JoinConcatOnly(base, p) ==
    IF base = <<>> \/ base[Len(base)] = Slash THEN base \o p
    ELSE base \o <<Slash>> \o p

Join(base, p) ==
    IF HasRoot(p) THEN p
    ELSE IF base = <<>> \/ base[Len(base)] = Slash THEN base \o p
    ELSE base \o <<Slash>> \o p

IsPrefix(a, b) == Len(a) <= Len(b) /\ SubSeq(b, 1, Len(a)) = a

\* Path::starts_with: whole components of base are a prefix of those of p
StartsWith(p, base) ==
    /\ HasRoot(p) = HasRoot(base)
    /\ IsPrefix(CompNames(base), CompNames(p))

LastNormal(c) == IF c = <<>> \/ c[Len(c)] = DotDot THEN None ELSE c[Len(c)]

\* Path::file_name: the last component when it is a normal one
FileName(s) == LastNormal(CompNames(s))

RECURSIVE LastDot(_, _)
LastDot(n, i) == IF i = 0 THEN 0 ELSE IF n[i] = "." THEN i ELSE LastDot(n, i - 1)

AfterDot(n, k) == IF k <= 1 THEN None ELSE SubSeq(n, k + 1, Len(n))

ExtensionOfName(n) == IF n = None THEN None ELSE AfterDot(n, LastDot(n, Len(n)))

\* Path::extension: after the last dot of file_name, none when there is no
\* dot or the name begins with its only dot
Extension(s) == ExtensionOfName(FileName(s))

base_dir == S_srv

(*************************** file system *********************************)

DirNode == [kind |-> "dir", data |-> <<>>]
FileNode(d) == [kind |-> "file", data |-> d]

NoEnt == << <<Slash>> >>

Parent(p) == IF p = <<>> THEN <<>> ELSE SubSeq(p, 1, Len(p) - 1)

RECURSIVE WalkFrom(_, _, _)
\* kernel path walk: every component but the last must be a directory
WalkFrom(f, cur, rest) ==
    IF rest = <<>> THEN cur
    ELSE IF cur \notin DOMAIN f \/ f[cur].kind # "dir" THEN NoEnt
    ELSE IF Head(rest) = DotDot THEN WalkFrom(f, Parent(cur), Tail(rest))
    ELSE IF Head(rest) = DotName THEN WalkFrom(f, cur, Tail(rest))
    ELSE WalkFrom(f, Append(cur, Head(rest)), Tail(rest))

Existing(f, s, p) ==
    IF p = NoEnt \/ p \notin DOMAIN f THEN NoEnt
    ELSE IF s # <<>> /\ s[Len(s)] = Slash /\ f[p].kind # "dir" THEN NoEnt
    ELSE p

\* the node an absolute path string names, NoEnt when there is none
Lookup(f, s) == Existing(f, s, WalkFrom(f, <<>>, CompNames(s)))

IsDirAt(f, p) == p # NoEnt /\ f[p].kind = "dir"
IsFileAt(f, p) == p # NoEnt /\ f[p].kind = "file"

RECURSIVE Collapse(_, _)
\* where the path points when ".." is followed, whether or not it exists
Collapse(cur, rest) ==
    IF rest = <<>> THEN cur
    ELSE IF Head(rest) = DotDot THEN Collapse(Parent(cur), Tail(rest))
    ELSE IF Head(rest) = DotName THEN Collapse(cur, Tail(rest))
    ELSE Collapse(Append(cur, Head(rest)), Tail(rest))

Location(s) == Collapse(<<>>, CompNames(s))

InsideRoot(s) == IsPrefix(Location(base_dir), Location(s))

Max(a, b) == IF a >= b THEN a ELSE b

\* pwrite of chunk at offset off: bytes past the old end are a zero hole
WriteAt(old, off, chunk) ==
    [i \in 1..Max(Len(old), off + Len(chunk)) |->
        IF i > off /\ i <= off + Len(chunk) THEN chunk[i - off]
        ELSE IF i <= Len(old) THEN old[i]
        ELSE 0]

\* open(O_CREAT | O_TRUNC) without the truncation
CreatedKeep(f, p) == IF p \in DOMAIN f THEN f ELSE (p :> FileNode(<<>>)) @@ f

\* open(O_WRONLY | O_CREAT | O_TRUNC) on p: the file exists and is empty
Created(f, p) == (p :> FileNode(<<>>)) @@ f

CreatableAt(f, s, p) ==
    IF p = NoEnt \/ p = <<>> \/ s[Len(s)] = Slash THEN NoEnt
    ELSE IF p \in DOMAIN f /\ f[p].kind = "dir" THEN NoEnt
    ELSE p

\* the node File::create(s) would make or truncate, NoEnt when it must fail
CreateTarget(f, s) == CreatableAt(f, s, WalkFrom(f, <<>>, CompNames(s)))

Without(fn, p) == [q \in DOMAIN fn \ {p} |-> fn[q]]

(************************** format_file_size *****************************)

\* a u64 as seven base-1024 limbs, least significant first (2^64 = 16 * 1024^6)
NumLimbs == 7
TopLimbMax == 15
Base == 1024
MantissaBits == 53

UNITS == << <<"B">>, <<"K", "B">>, <<"M", "B">>, <<"G", "B">>, <<"T", "B">> >>

DigitChar(k) == <<"0", "1", "2", "3", "4", "5", "6", "7", "8", "9">>[k + 1]

RECURSIVE Digits(_)
\* Display of an unsigned integer
Digits(n) == IF n < 10 THEN <<DigitChar(n)>> ELSE Append(Digits(n \div 10), DigitChar(n % 10))

RECURSIVE Pow2(_)
Pow2(k) == IF k = 0 THEN 1 ELSE 2 * Pow2(k - 1)

RECURSIVE BitLen(_)
BitLen(n) == IF n = 0 THEN 0 ELSE 1 + BitLen(n \div 2)

RECURSIVE TopLimb(_, _)
TopLimb(l, i) == IF i = 0 THEN 0 ELSE IF l[i] # 0 THEN i ELSE TopLimb(l, i - 1)

BitsAt(l, t) == IF t = 0 THEN 0 ELSE 10 * (t - 1) + BitLen(l[t])

LimbBits(l) == BitsAt(l, TopLimb(l, Len(l)))

RECURSIVE AddAt(_, _, _)
\* l + c * 1024^(i-1); the top limb absorbs the last carry
AddAt(l, i, c) ==
    IF c = 0 THEN l
    ELSE IF i = Len(l) THEN [l EXCEPT ![i] = @ + c]
    ELSE AddAt([l EXCEPT ![i] = (l[i] + c) % Base], i + 1, (l[i] + c) \div Base)

\* round q + r/unit to an integer, ties to even
HalfEven(q, r, unit) ==
    IF 2 * r > unit \/ (2 * r = unit /\ q % 2 = 1) THEN q + 1 ELSE q

SetLow(l, kept) ==
    AddAt(AddAt([l EXCEPT ![1] = 0, ![2] = 0], 1, kept % Base), 2, kept \div Base)

RoundLow(l, low, unit) == SetLow(l, unit * HalfEven(low \div unit, low % unit, unit))

RoundOff(l, s) == IF s <= 0 THEN l ELSE RoundLow(l, l[1] + Base * l[2], Pow2(s))

\* `size as f64`: round to nearest, ties to even, at 53 significant bits
AsF64(l) == RoundOff(l, LimbBits(l) - MantissaBits)

\* size > 1024.0 in place of size >= 1024.0
Gt1024(l, k) ==
    \/ \E j \in (k + 3)..Len(l) : l[j] # 0
    \/ /\ k + 2 <= Len(l)
       /\ l[k + 2] > 1 \/ (l[k + 2] = 1 /\ \E j \in 1..(k + 1) : l[j] # 0)

\* size >= 1024.0 after k divisions by 1024.0
Ge1024(l, k) == \E j \in (k + 2)..Len(l) : l[j] # 0

RECURSIVE ScaleLoop(_, _)
\* while size >= 1024.0 && unit_index < UNITS.len() - 1
ScaleLoop(l, k) ==
    IF Ge1024(l, k) /\ k < Len(UNITS) - 1 THEN ScaleLoop(l, k + 1) ELSE k

RECURSIVE IntPart(_, _)
\* the integer part of l / 1024^(j-1)
IntPart(l, j) == IF j > Len(l) THEN 0 ELSE l[j] + Base * IntPart(l, j + 1)

PushLimb(d, rest) == <<rest[1], <<d>> \o rest[2]>>

RECURSIVE MulTen(_, _, _)
RECURSIVE MulTenStep(_, _, _)
\* 10 * (l / 1024^Len(l)): <<tenths, remainder limbs>>
MulTen(l, i, c) == IF i > Len(l) THEN <<c, <<>> >> ELSE MulTenStep(l, i, 10 * l[i] + c)

MulTenStep(l, i, v) == PushLimb(v % Base, MulTen(l, i + 1, v \div Base))

\* compare remainder limbs with one half: -1, 0, 1
HalfCmp(rem) ==
    IF rem[Len(rem)] > Base \div 2 THEN 1
    ELSE IF rem[Len(rem)] < Base \div 2 THEN -1
    ELSE IF \E j \in 1..(Len(rem) - 1) : rem[j] # 0 THEN 1 ELSE 0

RoundTenths(t, c) == IF c > 0 \/ (c = 0 /\ t % 2 = 1) THEN t + 1 ELSE t

Decimal(ip, t) ==
    IF t = 10 THEN Digits(ip + 1) \o <<".", "0">> ELSE Digits(ip) \o <<".", DigitChar(t)>>

Rounded(ip, m) == Decimal(ip, RoundTenths(m[1], HalfCmp(m[2])))

\* format!("{:.1}", size): one decimal, round half to even on the exact value
OneDecimal(l, k) == Rounded(IntPart(l, k + 1), MulTen(SubSeq(l, 1, k), 1, 0))

\* lines 592-596
Render(f, k) ==
    IF k = 0 THEN Digits(f[1]) \o <<" ">> \o UNITS[k + 1]
    ELSE OneDecimal(f, k) \o <<" ">> \o UNITS[k + 1]

Scaled(f) == Render(f, ScaleLoop(f, 0))

format_file_size(l) == Scaled(AsF64(l))

RECURSIVE ToLimbs(_, _)
ToLimbs(n, k) == IF k = 0 THEN <<>> ELSE <<n % Base>> \o ToLimbs(n \div Base, k - 1)

\* metadata.len() of a file the model holds
LenU64(n) == ToLimbs(n, NumLimbs)

(********************** generate_directory_listing ***********************)

\* one DirEntry with its metadata, as next_entry() yields it
Entry(n, k, l) == [name |-> n, is_dir |-> k = "dir", is_file |-> k = "file", len |-> l]

\* lines 140-147; size is None (<<>>) or Some(len) (<<len>>)
FileInfo(e) == [name   |-> e.name,
                is_dir |-> e.is_dir,
                size   |-> IF e.is_file THEN <<LenU64(e.len)>> ELSE <<>>]

RECURSIVE InsertByName(_, _)
InsertByName(e, sorted) ==
    IF sorted = <<>> THEN <<e>>
    ELSE IF StrLess(e.name, Head(sorted).name) THEN <<e>> \o sorted
    ELSE <<Head(sorted)>> \o InsertByName(e, Tail(sorted))

RECURSIVE SortByNameFrom(_, _)
SortByNameFrom(seq, acc) ==
    IF seq = <<>> THEN acc
    ELSE SortByNameFrom(Tail(seq), InsertByName(Head(seq), acc))

\* the rows in the order read_dir enumerated them
Unsorted(seq) == seq

\* sort_by(|a, b| a.name.cmp(&b.name))
SortByName(seq) == SortByNameFrom(seq, <<>>)

LinkPath(current_path, name) ==
    IF current_path = <<>> THEN name ELSE current_path \o <<Slash>> \o name

\* lines 205-215
DirRow(current_path, d) ==
    [kind  |-> "dir",
     href  |-> <<Slash>> \o LinkPath(current_path, d.name),
     label |-> d.name \o <<Slash>>,
     size  |-> <<"-">>]

\* lines 218-229
FileRow(current_path, f) ==
    [kind  |-> "file",
     href  |-> <<Slash>> \o LinkPath(current_path, f.name),
     label |-> f.name,
     size  |-> IF f.size = <<>> THEN <<"-">> ELSE format_file_size(f.size[1])]

DirRows(dirs, current_path) == [i \in 1..Len(dirs) |-> DirRow(current_path, dirs[i])]
FileRows(files, current_path) == [i \in 1..Len(files) |-> FileRow(current_path, files[i])]

\* lines 149-158: the two groups, each sorted by name
Partitioned(infos, current_path) ==
    DirRows(SortByName(SelectSeq(infos, LAMBDA e : e.is_dir)), current_path)
        \o FileRows(SortByName(SelectSeq(infos, LAMBDA e : ~e.is_dir)), current_path)

\* file_rows of the page: directories first, then the rest
file_rows(entries, current_path) ==
    Partitioned([i \in 1..Len(entries) |-> FileInfo(entries[i])], current_path)

\* Ok(page) or the error `?` propagates from read_dir / next_entry / metadata
generate_directory_listing(entries, current_path, io_ok) ==
    IF io_ok THEN [ok |-> TRUE, file_rows |-> file_rows(entries, current_path)]
    ELSE [ok |-> FALSE, file_rows |-> <<>>]

(*************************** guess_content_type **************************)

LowerCase == <<"a", "b", "c", "d", "e", "f", "g", "h", "i", "j", "k", "l", "m",
               "n", "o", "p", "q", "r", "s", "t", "u", "v", "w", "x", "y", "z">>

UpperCase == <<"A", "B", "C", "D", "E", "F", "G", "H", "I", "J", "K", "L", "M",
               "N", "O", "P", "Q", "R", "S", "T", "U", "V", "W", "X", "Y", "Z">>

IndexIn(seq, c) == IF \E i \in 1..Len(seq) : seq[i] = c
                   THEN CHOOSE i \in 1..Len(seq) : seq[i] = c ELSE 0

UpperChar(c) == IF IndexIn(LowerCase, c) = 0 THEN c ELSE UpperCase[IndexIn(LowerCase, c)]

LowerChar(c) == IF IndexIn(UpperCase, c) = 0 THEN c ELSE LowerCase[IndexIn(UpperCase, c)]

AllUpper(s) == [i \in 1..Len(s) |-> UpperChar(s[i])]

AllLower(s) == [i \in 1..Len(s) |-> LowerChar(s[i])]

Capitalised(s) == [i \in 1..Len(s) |-> IF i = 1 THEN UpperChar(s[i]) ELSE s[i]]

X_html == <<"h", "t", "m", "l">>
X_htm == <<"h", "t", "m">>
X_css == <<"c", "s", "s">>
X_js == <<"j", "s">>
X_json == <<"j", "s", "o", "n">>
X_xml == <<"x", "m", "l">>
X_txt == <<"t", "x", "t">>
X_md == <<"m", "d">>
X_png == <<"p", "n", "g">>
X_jpg == <<"j", "p", "g">>
X_jpeg == <<"j", "p", "e", "g">>
X_gif == <<"g", "i", "f">>
X_svg == <<"s", "v", "g">>
X_ico == <<"i", "c", "o">>
X_pdf == <<"p", "d", "f">>
X_zip == <<"z", "i", "p">>
X_tar == <<"t", "a", "r">>
X_gz == <<"g", "z">>
X_mp4 == <<"m", "p", "4">>
X_mp3 == <<"m", "p", "3">>
X_wav == <<"w", "a", "v">>

\* the match of lines 692-713 on the extension
ContentTypeOf(ext) ==
    CASE ext = X_html \/ ext = X_htm -> "text/html; charset=utf-8"
      [] ext = X_css -> "text/css; charset=utf-8"
      [] ext = X_js -> "application/javascript; charset=utf-8"
      [] ext = X_json -> "application/json; charset=utf-8"
      [] ext = X_xml -> "application/xml; charset=utf-8"
      [] ext = X_txt -> "text/plain; charset=utf-8"
      [] ext = X_md -> "text/markdown; charset=utf-8"
      [] ext = X_png -> "image/png"
      [] ext = X_jpg \/ ext = X_jpeg -> "image/jpeg"
      [] ext = X_gif -> "image/gif"
      [] ext = X_svg -> "image/svg+xml"
      [] ext = X_ico -> "image/x-icon"
      [] ext = X_pdf -> "application/pdf"
      [] ext = X_zip -> "application/zip"
      [] ext = X_tar -> "application/x-tar"
      [] ext = X_gz -> "application/gzip"
      [] ext = X_mp4 -> "video/mp4"
      [] ext = X_mp3 -> "audio/mpeg"
      [] ext = X_wav -> "audio/wav"
      [] OTHER -> "application/octet-stream"

\* the extension folded to lower case before the match
guess_content_type_lowercased(file_path) == ContentTypeOf(AllLower(Extension(file_path)))

\* lines 691-714: the extension is matched as it is spelled
guess_content_type(file_path) == ContentTypeOf(Extension(file_path))

(**************************** response texts *****************************)

\* the literals of the source, in English (the source lines hold them in
\* Chinese)
T_denied == "access denied"
T_not_found == "no such file or directory"
T_dir_error == "cannot read directory"
T_file_error == "cannot read file"
T_one_ok == "file uploaded"
T_all == "all "
T_files_ok == " files uploaded"
T_of_files == " files, of which "
T_ok == " uploaded"
T_failed == "upload failed"

(****************************** inputs ***********************************)

Uploaders == {"u1", "u2"}

\* request paths a GET may carry (Path<String>, URL-decoded)
GetPaths == {EmptyStr, S_root, S_d, S_d_report, S_d_missing,
             S_etc_rel, S_etc_p, S_etc_abs, S_d_up_up_etc}

\* values a current_path form field may carry
CurrentPaths == {EmptyStr, S_root, S_d, S_etc_rel, S_etc_abs, S_nodir}

FileNames == {S_report, S_a}

B_long == <<1, 2>>
B_short == <<3>>
B_old == <<9, 9, 9>>
B_secret == <<7>>
Payloads == {B_long, B_short}

\* multipart fields: name and filename as the Content-Disposition gives them
Field(n, f) == [name |-> n, file_name |-> f]
NoField == Field("", None)
Fields == {Field("current_path", None), Field("other", None), Field("file", None)}
              \cup {Field("file", f) : f \in FileNames}

P_srv == <<N_srv>>
P_d == <<N_srv, S_d>>
P_report == <<N_srv, S_d, S_report>>
P_etc == <<N_etc>>

Tree == (<<>> :> DirNode) @@ (P_srv :> DirNode) @@ (P_d :> DirNode)
            @@ (P_etc :> DirNode) @@ (<<N_etc, N_p>> :> FileNode(B_secret))

InitFs(old) == IF old THEN (P_report :> FileNode(B_old)) @@ Tree ELSE Tree

(*************************** upload_handler ******************************)

IdleUp ==
    [pc |-> "idle", nparts |-> 0, eof |-> FALSE,
     current_path |-> EmptyStr, target_dir |-> EmptyStr,
     total_files |-> 0, success_count |-> 0, failed |-> 0,
     field |-> NoField, data |-> <<>>, file_path |-> EmptyStr,
     handle |-> NoEnt, offset |-> 0,
     status |-> 0, location |-> EmptyStr, message |-> <<>>, touched |-> {},
     found |-> FALSE]

SetUp(u, r) == up' = [up EXCEPT ![u] = r]

OnlyUp == UNCHANGED <<fs, get, stored, finished, raced, dir, rows, size, text, fpath, ctype>>

\* lines 605-607: the handler is entered with its counters at zero
UploadStart(u) ==
    /\ up[u].pc = "idle"
    /\ SetUp(u, [up[u] EXCEPT !.pc = "scan"])
    /\ OnlyUp

\* lines 621-625
TargetDir(current_path) ==
    IF current_path = EmptyStr THEN base_dir ELSE Join(base_dir, current_path)

\* lines 628-630: the containment check
CheckTarget(r) ==
    IF ~StartsWith(r.target_dir, base_dir)
    THEN [r EXCEPT !.pc = "done", !.status = 403, !.message = <<T_denied>>]
    ELSE [r EXCEPT !.pc = "files"]

\* lines 620-630: the destination and its containment check
ResolveTarget(r) == CheckTarget([r EXCEPT !.target_dir = TargetDir(r.current_path)])

\* the first loop counting the file parts it passes over
ScanSkipCounts(u) ==
    /\ up[u].pc = "scan" /\ ~up[u].eof /\ up[u].nparts < MaxParts
    /\ \E f \in Fields, text_ok \in BOOLEAN :
          /\ f.name # "current_path" \/ ~text_ok
          /\ SetUp(u, [up[u] EXCEPT !.nparts = @ + 1, !.field = f,
                                 !.total_files = IF f.name = "file" /\ f.file_name # None
                                                 THEN @ + 1 ELSE @])
    /\ OnlyUp

\* first loop: a field that is not a readable current_path is dropped
ScanSkip(u) ==
    /\ up[u].pc = "scan" /\ ~up[u].eof /\ up[u].nparts < MaxParts
    /\ \E f \in Fields, text_ok \in BOOLEAN :
          /\ f.name # "current_path" \/ ~text_ok
          /\ SetUp(u, [up[u] EXCEPT !.nparts = @ + 1, !.field = f])
    /\ OnlyUp

\* first loop: current_path read, break, then lines 620-630
ScanFound(u) ==
    /\ up[u].pc = "scan" /\ ~up[u].eof /\ up[u].nparts < MaxParts
    /\ \E p \in CurrentPaths :
          SetUp(u, ResolveTarget([up[u] EXCEPT !.nparts = @ + 1,
                                               !.field = Field("current_path", None),
                                               !.current_path = p,
                                               !.found = TRUE]))
    /\ OnlyUp

\* first loop: next_field() gives Ok(None) or Err, then lines 620-630
ScanEnd(u) ==
    /\ up[u].pc = "scan"
    /\ SetUp(u, ResolveTarget([up[u] EXCEPT !.eof = TRUE]))
    /\ OnlyUp

\* line 673 with its two arguments exchanged
MessageSwapped(success_count, total_files) ==
    IF success_count > 0
    THEN IF success_count = total_files
         THEN IF total_files = 1 THEN <<T_one_ok>>
              ELSE <<T_all>> \o Digits(total_files) \o <<T_files_ok>>
         ELSE Digits(success_count) \o <<T_of_files>> \o Digits(total_files) \o <<T_ok>>
    ELSE <<T_failed>>

\* lines 665-687: the message
Message(success_count, total_files) ==
    IF success_count > 0
    THEN IF success_count = total_files
         THEN IF total_files = 1 THEN <<T_one_ok>>
              ELSE <<T_all>> \o Digits(total_files) \o <<T_files_ok>>
         ELSE Digits(total_files) \o <<T_of_files>> \o Digits(success_count) \o <<T_ok>>
    ELSE <<T_failed>>

\* lines 659-663
RedirectPath(current_path) ==
    IF current_path = EmptyStr THEN <<Slash>> ELSE <<Slash>> \o current_path

\* lines 658-687: the redirect
Respond(r) ==
    [r EXCEPT !.pc = "done", !.status = 303,
              !.location = RedirectPath(r.current_path),
              !.message = Message(r.success_count, r.total_files)]

\* second loop ends: next_field() gives Ok(None) or Err
FilesEnd(u) ==
    /\ up[u].pc = "files"
    /\ SetUp(u, Respond([up[u] EXCEPT !.eof = TRUE]))
    /\ OnlyUp

\* second loop: a field not named "file", or without a filename
FileSkip(u) ==
    /\ up[u].pc = "files" /\ ~up[u].eof /\ up[u].nparts < MaxParts
    /\ \E f \in Fields :
          /\ f.name # "file" \/ f.file_name = None
          /\ SetUp(u, [up[u] EXCEPT !.nparts = @ + 1, !.field = f])
    /\ OnlyUp

\* second loop: a file part whose bytes() fails
FileDecodeFail(u) ==
    /\ up[u].pc = "files" /\ ~up[u].eof /\ up[u].nparts < MaxParts
    /\ \E n \in FileNames :
          SetUp(u, [up[u] EXCEPT !.nparts = @ + 1, !.field = Field("file", n),
                                 !.total_files = @ + 1, !.failed = @ + 1])
    /\ OnlyUp

\* second loop: a file part with its bytes, up to target_dir.join(file_name)
FileAccept(u) ==
    /\ up[u].pc = "files" /\ ~up[u].eof /\ up[u].nparts < MaxParts
    /\ \E n \in FileNames, d \in Payloads :
          SetUp(u, [up[u] EXCEPT !.nparts = @ + 1, !.field = Field("file", n),
                                 !.total_files = @ + 1, !.data = d,
                                 !.file_path = Join(up[u].target_dir, n),
                                 !.pc = "create"])
    /\ OnlyUp

CreateAt(u, p) ==
    /\ p # NoEnt
    /\ fs' = Created(fs, p)
    /\ stored' = Without(stored, p)
    /\ raced' = IF \E v \in Uploaders \ {u} : up[v].pc = "write" /\ up[v].handle = p
                THEN raced \cup {p} ELSE raced
    /\ SetUp(u, [up[u] EXCEPT !.pc = "write", !.handle = p, !.offset = 0,
                              !.touched = @ \cup {p}])

\* File::create gives Ok: the file exists and is empty
CreateOk(u) ==
    /\ up[u].pc = "create"
    /\ CreateAt(u, CreateTarget(fs, up[u].file_path))
    /\ UNCHANGED <<get, finished, dir, rows, size, text, fpath, ctype>>

\* the Err arm ends the request
CreateFailAborts(u) ==
    /\ up[u].pc = "create"
    /\ SetUp(u, Respond([up[u] EXCEPT !.failed = @ + 1]))
    /\ OnlyUp

\* File::create gives Err: the part is dropped
CreateFail(u) ==
    /\ up[u].pc = "create"
    /\ SetUp(u, [up[u] EXCEPT !.pc = "files", !.failed = @ + 1])
    /\ OnlyUp

\* write_all returned Ok
WriteDone(r) == [r EXCEPT !.pc = "files", !.success_count = @ + 1]

Advance(r, n) ==
    IF r.offset + n = Len(r.data) THEN WriteDone([r EXCEPT !.offset = @ + n])
    ELSE [r EXCEPT !.offset = @ + n]

\* one write(2) of n bytes at the handle's offset
WriteBytes(u, r, n) ==
    /\ fs' = [fs EXCEPT ![r.handle] =
                 FileNode(WriteAt(@.data, r.offset, SubSeq(r.data, r.offset + 1, r.offset + n)))]
    /\ SetUp(u, Advance(r, n))
    /\ stored' = IF r.offset + n = Len(r.data) THEN (r.handle :> r.data) @@ stored
                 ELSE stored
    /\ finished' = IF r.offset + n = Len(r.data) THEN Append(finished, u) ELSE finished

\* write_all: it writes until nothing is left (at once when nothing is)
WriteChunk(u) ==
    /\ up[u].pc = "write"
    /\ \E n \in 0..(Len(up[u].data) - up[u].offset) :
          /\ n > 0 \/ up[u].offset = Len(up[u].data)
          /\ WriteBytes(u, up[u], n)
    /\ UNCHANGED <<get, raced, dir, rows, size, text, fpath, ctype>>

\* write_all returned Err
WriteFail(u) ==
    /\ up[u].pc = "write" /\ up[u].offset < Len(up[u].data)
    /\ SetUp(u, [up[u] EXCEPT !.pc = "files", !.failed = @ + 1])
    /\ OnlyUp

UploadStep(u) ==
    \/ UploadStart(u)
    \/ ScanSkip(u) \/ ScanFound(u) \/ ScanEnd(u)
    \/ FileSkip(u) \/ FileDecodeFail(u) \/ FileAccept(u) \/ FilesEnd(u)
    \/ CreateOk(u) \/ CreateFail(u)
    \/ WriteChunk(u) \/ WriteFail(u)

(**************************** serve_handler ******************************)

IdleGet ==
    [pc |-> "idle", path_str |-> EmptyStr, requested_path |-> EmptyStr,
     status |-> 0, body |-> <<>>, content_type |-> "", disposition |-> <<>>,
     ops |-> <<>>]

Op(name, result) == [op |-> name, result |-> result]

OnlyGet == UNCHANGED <<fs, up, stored, finished, raced, dir, rows, size, text, fpath, ctype>>

\* lines 96-100: the requested path
RequestedPath(path_str) ==
    IF path_str = EmptyStr THEN base_dir ELSE Join(base_dir, path_str)

\* lines 103-105: the containment check
Checked(r) ==
    IF ~StartsWith(r.requested_path, base_dir)
    THEN [r EXCEPT !.pc = "done", !.status = 403, !.body = <<T_denied>>]
    ELSE [r EXCEPT !.pc = "exists"]

\* lines 95-105: the request arrives
GetStart ==
    /\ get.pc = "idle"
    /\ \E p \in GetPaths :
          get' = Checked([get EXCEPT !.path_str = p, !.requested_path = RequestedPath(p)])
    /\ OnlyGet

\* a missing path answered as a server error
ExistsAnswered500(r, found) ==
    IF ~found
    THEN [r EXCEPT !.ops = Append(@, Op("exists", found)), !.pc = "done", !.status = 500,
                   !.body = <<T_not_found>>]
    ELSE [r EXCEPT !.ops = Append(@, Op("exists", found)), !.pc = "is_dir"]

\* lines 107-109
ExistsAnswered(r, found) ==
    IF ~found
    THEN [r EXCEPT !.ops = Append(@, Op("exists", found)), !.pc = "done", !.status = 404,
                   !.body = <<T_not_found>>]
    ELSE [r EXCEPT !.ops = Append(@, Op("exists", found)), !.pc = "is_dir"]

\* lines 107-109: requested_path.exists()
GetExists ==
    /\ get.pc = "exists"
    /\ get' = ExistsAnswered(get, Lookup(fs, get.requested_path) # NoEnt)
    /\ OnlyGet

IsDirAnswered(r, is_dir) ==
    [r EXCEPT !.ops = Append(@, Op("is_dir", is_dir)),
              !.pc = IF is_dir THEN "list" ELSE "read"]

\* line 111: requested_path.is_dir()
GetIsDir ==
    /\ get.pc = "is_dir"
    /\ get' = IsDirAnswered(get, IsDirAt(fs, Lookup(fs, get.requested_path)))
    /\ OnlyGet

ChildPaths(f, p) == {c \in DOMAIN f : Len(c) = Len(p) + 1 /\ SubSeq(c, 1, Len(p)) = p}

\* the children of directory p as Entry records
Children(f, p) == {Entry(q[Len(q)], f[q].kind, Len(f[q].data)) : q \in ChildPaths(f, p)}

\* every order in which read_dir may enumerate a set of entries
Enumerations(S) ==
    {e \in [1..Cardinality(S) -> S] : \A i, j \in 1..Cardinality(S) : e[i] = e[j] => i = j}

\* what read_dir(p) may yield; nothing when p is no directory
ReadDir(f, p) == Enumerations(IF IsDirAt(f, p) THEN Children(f, p) ELSE {})

\* lines 113-116
Listed(r, html) ==
    IF ~html.ok
    THEN [r EXCEPT !.ops = Append(@, Op("read_dir", FALSE)), !.pc = "done",
                   !.status = 500, !.body = <<T_dir_error>>]
    ELSE [r EXCEPT !.ops = Append(@, Op("read_dir", TRUE)), !.pc = "done",
                   !.status = 200, !.body = html.file_rows,
                   !.content_type = "text/html; charset=utf-8"]

ListAt(p) ==
    \E io_ok \in BOOLEAN, e \in ReadDir(fs, p) :
        get' = Listed(get, generate_directory_listing(e, get.path_str,
                                                     io_ok /\ IsDirAt(fs, p)))

\* lines 112-116: the directory branch
GetList ==
    /\ get.pc = "list"
    /\ ListAt(Lookup(fs, get.requested_path))
    /\ OnlyGet

NoResponse == [ok |-> FALSE, contents |-> <<>>, content_type |-> "", disposition |-> <<>>]

\* lines 570-576
Disposition(file_name) ==
    IF file_name = None THEN <<>>
    ELSE <<"inline; filename=\"">> \o file_name \o <<"\"">>

Contents(f, p, file_path, io_ok) ==
    IF ~io_ok \/ ~IsFileAt(f, p) THEN NoResponse
    ELSE [ok           |-> TRUE,
          contents     |-> f[p].data,
          content_type |-> guess_content_type(file_path),
          disposition  |-> Disposition(FileName(file_path))]

\* the body without its headers
serve_file_bare(f, file_path, io_ok) ==
    IF ~io_ok \/ ~IsFileAt(f, Lookup(f, file_path)) THEN NoResponse
    ELSE [ok |-> TRUE, contents |-> f[Lookup(f, file_path)].data,
          content_type |-> "", disposition |-> <<>>]

\* lines 562-579: Ok(headers, contents) or the error of fs::read
serve_file(f, file_path, io_ok) == Contents(f, Lookup(f, file_path), file_path, io_ok)

\* lines 119-122
Served(r, response) ==
    IF ~response.ok
    THEN [r EXCEPT !.ops = Append(@, Op("read", FALSE)), !.pc = "done",
                   !.status = 500, !.body = <<T_file_error>>]
    ELSE [r EXCEPT !.ops = Append(@, Op("read", TRUE)), !.pc = "done",
                   !.status = 200, !.body = response.contents,
                   !.content_type = response.content_type,
                   !.disposition = response.disposition]

\* lines 117-123: the file branch
GetRead ==
    /\ get.pc = "read"
    /\ \E io_ok \in BOOLEAN : get' = Served(get, serve_file(fs, get.requested_path, io_ok))
    /\ OnlyGet

GetStep == GetStart \/ GetExists \/ GetIsDir \/ GetList \/ GetRead

(*************************** specifications ******************************)

NoText == None
\* no content type computed yet
NoType == ""
\* no listing made yet; afterwards rows holds the one result
NoRows == <<>>

InitServer ==
    /\ \E old \in BOOLEAN : fs = InitFs(old)
    /\ up = [u \in Uploaders |-> IdleUp]
    /\ get = IdleGet
    /\ stored = <<>>
    /\ finished = <<>>
    /\ raced = {}

Init ==
    /\ InitServer
    /\ dir = <<>> /\ rows = NoRows
    /\ size = LenU64(0) /\ text = NoText
    /\ fpath = EmptyStr /\ ctype = NoType

Few(u, k) == up[u].nparts < k

\* an upload request of at most MaxLiveParts parts
LiveUploadStep(u) ==
    \/ UploadStart(u)
    \/ Few(u, MaxLiveParts) /\ ScanSkip(u)
    \/ Few(u, MaxLiveParts) /\ ScanFound(u)
    \/ ScanEnd(u)
    \/ Few(u, MaxLiveParts) /\ FileSkip(u)
    \/ Few(u, MaxLiveParts) /\ FileDecodeFail(u)
    \/ Few(u, MaxLiveParts) /\ FileAccept(u)
    \/ FilesEnd(u)
    \/ CreateOk(u) \/ CreateFail(u)
    \/ WriteChunk(u) \/ WriteFail(u)

\* one upload request and one GET request, served concurrently
Next == LiveUploadStep("u1") \/ GetStep

Spec == Init /\ [][Next]_vars

\* one upload request, alone
NextUpload == UploadStep("u1")

SpecUpload == Init /\ [][NextUpload]_vars

UploadOver == up["u1"].pc = "done"

\* one upload request, and a GET request issued after it was answered
NextRoundTrip ==
    \/ UploadStep("u1")
    \/ UploadOver /\ GetStart
    \/ UploadOver /\ GetExists
    \/ UploadOver /\ GetIsDir
    \/ UploadOver /\ GetList
    \/ UploadOver /\ GetRead

SpecRoundTrip == Init /\ [][NextRoundTrip]_vars

\* two upload requests in flight at once, each a current_path field that
\* names a directory of the tree and then file parts
RaceStep(u) ==
    \/ UploadStart(u)
    \/ Few(u, MaxRaceParts) /\ ScanFound(u) /\ up'[u].current_path \in {EmptyStr, S_d}
    \/ Few(u, MaxRaceParts) /\ FileAccept(u)
    \/ FilesEnd(u)
    \/ CreateOk(u)
    \/ CreateFail(u)
    \/ WriteChunk(u)
    \/ WriteFail(u)

NextRace == RaceStep("u1") \/ RaceStep("u2")

SpecRace == Init /\ [][NextRace]_vars

\* names a directory may hold
EntryNames == {<<"B">>, <<"Z">>, <<"a">>, <<"a", "b">>}

EntryKinds == {"dir", "file", "other"}

EntryLen == 1536

\* what read_dir may yield: each name once, in any order
Listings ==
    UNION {{e \in [1..n -> EntryNames \X EntryKinds] :
               \A i, j \in 1..n : i # j => e[i][1] # e[j][1]} : n \in 0..MaxEntries}

InitListing ==
    /\ InitServer
    /\ \E e \in Listings : dir = [i \in DOMAIN e |-> Entry(e[i][1], e[i][2], EntryLen)]
    /\ rows = NoRows
    /\ size = LenU64(0) /\ text = NoText
    /\ fpath = EmptyStr /\ ctype = NoType

ListDir ==
    /\ rows = NoRows
    /\ \E current_path \in {EmptyStr, S_d}, io_ok \in BOOLEAN :
          rows' = <<generate_directory_listing(dir, current_path, io_ok)>>
    /\ UNCHANGED <<fs, up, get, stored, finished, raced, dir, size, text, fpath, ctype>>

SpecListing == InitListing /\ [][ListDir]_vars

LowLimbs == {0, 1, 256, 512, 768, 1023}

HighLimbs == {0, 1, 1023}

TopLimbs == {0, 1, TopLimbMax}

\* byte counts: every unit, its two edges, halves and quarters of a unit
Sizes ==
    {<<a, b, c, d, e, f, g>> : a \in LowLimbs,
                               b \in LowLimbs,
                               c \in LowLimbs,
                               d \in HighLimbs,
                               e \in HighLimbs,
                               f \in HighLimbs,
                               g \in TopLimbs}

InitFormat ==
    /\ InitServer
    /\ dir = <<>> /\ rows = NoRows
    /\ size \in Sizes /\ text = NoText
    /\ fpath = EmptyStr /\ ctype = NoType

FormatSize ==
    /\ text = NoText
    /\ text' = format_file_size(size)
    /\ UNCHANGED <<fs, up, get, stored, finished, raced, dir, rows, size, fpath, ctype>>

SpecFormat == InitFormat /\ [][FormatSize]_vars

\* the extensions the match names, and two it does not
TableExts == {X_html, X_htm, X_css, X_js, X_json, X_xml, X_txt, X_md, X_png, X_jpg,
              X_jpeg, X_gif, X_svg, X_ico, X_pdf, X_zip, X_tar, X_gz, X_mp4, X_mp3, X_wav}

OtherExts == {<<"b", "i", "n">>, <<"t", "x">>, <<>>}

Spellings(x) == {x, AllUpper(x), Capitalised(x)}

Stems == {<<"f">>, <<"d", "/", "f">>, <<"a", ".", "t", "a", "r">>, <<>>}

\* file names with no extension at all
BareNames == {<<"f">>, <<"d", ".", "d", "/", "f">>, <<".", ".">>, EmptyStr}

FilePaths ==
    UNION {{stem \o <<".">> \o e : e \in Spellings(x), stem \in Stems} :
              x \in TableExts \cup OtherExts}
        \cup BareNames

InitContentType ==
    /\ InitServer
    /\ dir = <<>> /\ rows = NoRows
    /\ size = LenU64(0) /\ text = NoText
    /\ fpath \in FilePaths /\ ctype = NoType

GuessContentType ==
    /\ ctype = NoType
    /\ ctype' = guess_content_type(fpath)
    /\ UNCHANGED <<fs, up, get, stored, finished, raced, dir, rows, size, text, fpath>>

SpecContentType == InitContentType /\ [][GuessContentType]_vars

(****************************** claims ***********************************)

HasDotDot(s) == \E i \in 1..Len(CompNames(s)) : CompNames(s)[i] = DotDot

\* a request path with ".." or an absolute override that leaves the root
Escaping(path_str) ==
    /\ HasDotDot(path_str) \/ HasRoot(path_str)
    /\ ~InsideRoot(RequestedPath(path_str))

\* C1: a GET whose path, through ".." segments or an absolute override,
\* resolves outside the server root is answered 403 and touches the file
\* system not at all (no exists(), no read_dir, no read).
C1_EscapeRejected ==
    (get.pc # "idle" /\ Escaping(get.path_str))
        => (get.pc = "done" /\ get.status = 403 /\ get.ops = <<>>)

Scanned(u) == up[u].pc \notin {"idle", "scan"}

\* C2: an upload whose destination directory (root joined with current_path)
\* lies outside the server root is answered 403 as a whole, and the request
\* creates or writes no file, whatever its parts are.
C2_UploadEscapeRejected ==
    \A u \in Uploaders :
        (Scanned(u) /\ ~InsideRoot(up[u].target_dir))
            => /\ up[u].touched = {}
               /\ up[u].pc = "done" => up[u].status = 403

Contained == StartsWith(get.requested_path, base_dir)

RowLabels(body) == {body[i].label : i \in 1..Len(body)}

ChildLabels(f, p) ==
    {IF f[c].kind = "dir" THEN c[Len(c)] \o <<Slash>> ELSE c[Len(c)] : c \in ChildPaths(f, p)}

\* what a finished or running GET has asked the file system, by its answer
C3_Order ==
    /\ get.pc = "exists" => Contained /\ get.ops = <<>>
    /\ get.pc = "is_dir" => Contained /\ get.ops = <<Op("exists", TRUE)>>
    /\ get.pc = "list" => get.ops = <<Op("exists", TRUE), Op("is_dir", TRUE)>>
    /\ get.pc = "read" => get.ops = <<Op("exists", TRUE), Op("is_dir", FALSE)>>
    /\ get.pc = "done" =>
          \/ get.status = 403 /\ ~Contained /\ get.ops = <<>>
          \/ get.status = 404 /\ Contained /\ get.ops = <<Op("exists", FALSE)>>
          \/ /\ get.status \in {200, 500} /\ Contained
             /\ get.ops = <<Op("exists", TRUE), Op("is_dir", TRUE),
                            Op("read_dir", get.status = 200)>>
          \/ /\ get.status \in {200, 500} /\ Contained
             /\ get.ops = <<Op("exists", TRUE), Op("is_dir", FALSE),
                            Op("read", get.status = 200)>>

\* each answer is the one the file system gives at that step
C3_Live ==
    /\ (get.pc = "exists" /\ get'.pc # "exists") =>
          /\ (get'.pc = "done" /\ get'.status = 404) <=> Lookup(fs, get.requested_path) = NoEnt
          /\ get'.pc = "is_dir" <=> Lookup(fs, get.requested_path) # NoEnt
    /\ (get.pc = "is_dir" /\ get'.pc # "is_dir") =>
          /\ get'.pc = "list" <=> IsDirAt(fs, Lookup(fs, get.requested_path))
          /\ get'.pc = "read" <=> ~IsDirAt(fs, Lookup(fs, get.requested_path))
    /\ (get.pc = "list" /\ get'.pc = "done" /\ get'.status = 200) =>
          /\ RowLabels(get'.body) = ChildLabels(fs, Lookup(fs, get.requested_path))
          /\ Len(get'.body) = Cardinality(ChildPaths(fs, Lookup(fs, get.requested_path)))
    /\ (get.pc = "read" /\ get'.pc = "done" /\ get'.status = 200) =>
          get'.body = fs[Lookup(fs, get.requested_path)].data

\* C3: a GET that passes the containment check is answered from the live
\* file system in this order: path missing -> 404 (never 500); a directory
\* -> its listing (200) or 500; otherwise the file's bytes (200) or 500; and
\* the containment check (403) comes before the existence check.
C3_Dispatch == []C3_Order /\ [][C3_Live]_vars

C3_Witness ==
    /\ get.pc = "done" /\ get.path_str = S_d_missing /\ get.status = 404
    /\ up["u1"].pc = "write"

\* C4 as stated: "" and "/" both resolve to the server root and pass the
\* check, in serve_handler and in upload_handler.
C4_EmptyAndSlashAreRoot ==
    /\ (get.pc # "idle" /\ get.path_str \in {EmptyStr, S_root})
          => (get.requested_path = base_dir /\ get.status # 403)
    /\ \A u \in Uploaders :
          (Scanned(u) /\ up[u].current_path \in {EmptyStr, S_root})
              => (up[u].target_dir = base_dir /\ up[u].status # 403)

\* C4, amended: "" resolves to the server root and passes the check; "/" is
\* an absolute path, replaces the root in the join, resolves to "/" and is
\* answered 403 by both handlers; and resolving a path that passed the check
\* a second time yields the same path.
C4_Resolve ==
    /\ get.pc # "idle" =>
          /\ get.path_str = EmptyStr => (get.requested_path = base_dir /\ get.status # 403)
          /\ get.path_str = S_root =>
                (get.requested_path = S_root /\ get.status = 403 /\ get.ops = <<>>)
          /\ Contained => RequestedPath(get.requested_path) = get.requested_path
    /\ \A u \in Uploaders : Scanned(u) =>
          /\ up[u].current_path = EmptyStr =>
                (up[u].target_dir = base_dir /\ up[u].status # 403)
          /\ up[u].current_path = S_root =>
                (up[u].target_dir = S_root /\ up[u].status = 403 /\ up[u].touched = {})
          /\ StartsWith(up[u].target_dir, base_dir)
                => TargetDir(up[u].target_dir) = up[u].target_dir

C4_Witness ==
    /\ get.pc = "done" /\ get.path_str = S_root /\ get.status = 403
    /\ up["u1"].pc = "done" /\ up["u1"].current_path = S_root /\ up["u1"].status = 403

\* C5: when upload_handler has gone through its parts, 0 <= success_count <=
\* total_files; the answer is 303 with Location "/" for an empty
\* current_path and "/<current_path>" otherwise; the message is the
\* all-uploaded form when success_count = total_files > 0 (the singular one
\* when total_files = 1), the "M of N" form with M = success_count and N =
\* total_files when 0 < success_count < total_files, and the failed form
\* when success_count = 0; 3 file parts of which 1 fails give "2 of 3".
C5_Accounting ==
    \A u \in Uploaders :
        /\ 0 <= up[u].success_count /\ up[u].success_count <= up[u].total_files
        /\ (up[u].pc = "done" /\ up[u].status # 403) =>
              /\ up[u].status = 303
              /\ up[u].current_path = EmptyStr => up[u].location = <<"/">>
              /\ up[u].current_path # EmptyStr
                    => up[u].location = <<"/">> \o up[u].current_path
              /\ (up[u].success_count = 1 /\ up[u].total_files = 1)
                    => up[u].message = <<T_one_ok>>
              /\ (up[u].success_count = up[u].total_files /\ up[u].total_files > 1)
                    => up[u].message
                         = <<T_all>> \o Digits(up[u].total_files) \o <<T_files_ok>>
              /\ (0 < up[u].success_count /\ up[u].success_count < up[u].total_files)
                    => up[u].message
                         = Digits(up[u].total_files) \o <<T_of_files>>
                             \o Digits(up[u].success_count) \o <<T_ok>>
              /\ up[u].success_count = 0 => up[u].message = <<T_failed>>
              /\ (up[u].total_files = 3 /\ up[u].failed = 1)
                    => up[u].message = <<"3", T_of_files, "2", T_ok>>

C5_Witness ==
    /\ up["u1"].pc = "done" /\ up["u1"].status = 303
    /\ up["u1"].total_files = 3 /\ up["u1"].success_count = 2 /\ up["u1"].failed = 1
    /\ up["u1"].current_path = S_d /\ up["u1"].location = <<"/", "d">>

InFlight(u) == IF up[u].pc \in {"create", "write"} THEN 1 ELSE 0

\* a file part is counted once, and as a success only when written in full
C6_Counted ==
    \A u \in Uploaders :
        up[u].total_files = up[u].success_count + up[u].failed + InFlight(u)

\* a failed part leaves the loop running, and the next file part is counted
\* and its file created
C6_Continues ==
    \A u \in Uploaders :
        /\ up'[u].failed > up[u].failed =>
              /\ up'[u].failed = up[u].failed + 1
              /\ up'[u].pc = "files"
              /\ up'[u].success_count = up[u].success_count
              /\ up'[u].total_files = up'[u].success_count + up'[u].failed
        /\ (/\ up[u].pc = "files" /\ up'[u].nparts = up[u].nparts + 1
            /\ up'[u].field.name = "file" /\ up'[u].field.file_name # None) =>
              /\ up'[u].total_files = up[u].total_files + 1
              /\ \/ up'[u].pc = "create"
                 \/ up'[u].pc = "files" /\ up'[u].failed = up[u].failed + 1
        /\ (up[u].pc = "create" /\ up'[u].pc # "create") => up'[u].pc \in {"write", "files"}

\* C6: a file part whose payload cannot be decoded, or whose file cannot be
\* created or written in full, counts in total_files and not in
\* success_count, and the file parts after it are still counted and their
\* writes attempted: a failed part never ends the batch.
C6_PartFailure == []C6_Counted /\ [][C6_Continues]_vars

C6_Witness ==
    /\ up["u1"].failed = 2 /\ up["u1"].total_files = 3
    /\ up["u1"].pc = "write" /\ up["u1"].offset > 0

AllDone == \A u \in Uploaders : up[u].pc = "done"

\* C7 as stated: however the create and write steps of two uploads of one
\* filename interleave, the file ends as the whole payload of the request
\* whose write finished last, never a mix of the two.
C7_LastWriterWins ==
    AllDone => \A p \in DOMAIN stored : fs[p].data = stored[p]

PayloadByte(b, i) == b = 0 \/ \E d \in Payloads : i <= Len(d) /\ d[i] = b

\* C7, amended: a file whose create..write windows never overlapped holds
\* exactly the payload last written to it in full (so uploads of distinct
\* filenames, concurrent or not, each leave their own payload); when two
\* uploads of one filename overlap, no more holds of the file than that
\* each of its bytes is a zero or the byte one of the payloads has at that
\* position: it may be a mix of both.
C7_Race ==
    /\ \A p \in DOMAIN stored \ raced : fs[p].data = stored[p]
    /\ \A u \in Uploaders : \A p \in up[u].touched :
          \A i \in 1..Len(fs[p].data) : PayloadByte(fs[p].data[i], i)

C7_Witness ==
    /\ AllDone /\ raced = {}
    /\ up["u1"].handle = P_report /\ up["u2"].handle = P_report
    /\ up["u1"].success_count = 1 /\ up["u2"].success_count = 1
    /\ up["u1"].data = B_long /\ up["u2"].data = B_short
    /\ finished = <<"u1", "u2">> /\ fs[P_report].data = B_short

\* C8: after an upload has written a part named "report.txt" with bytes B
\* in full under current_path d, with no other writer, a later GET of
\* d/report.txt is answered 200 with body B, Content-Type "text/plain;
\* charset=utf-8" and Content-Disposition inline; filename="report.txt"
\* (500 only when reading the file fails), whether or not a file of that
\* name was there before.
C8_RoundTrip ==
    (/\ get.pc = "done" /\ get.path_str = S_d_report
     /\ up["u1"].pc = "done" /\ up["u1"].current_path = S_d
     /\ P_report \in DOMAIN stored)
        => \/ /\ get.status = 200
              /\ get.body = stored[P_report] /\ get.body \in Payloads
              /\ get.content_type = "text/plain; charset=utf-8"
              /\ get.disposition = <<"inline; filename=\"">> \o S_report \o <<"\"">>
           \/ /\ get.status = 500
              /\ get.ops = <<Op("exists", TRUE), Op("is_dir", FALSE), Op("read", FALSE)>>

C8_Witness ==
    /\ get.pc = "done" /\ get.path_str = S_d_report /\ get.status = 200
    /\ up["u1"].pc = "done" /\ up["u1"].current_path = S_d
    /\ up["u1"].total_files = 2 /\ up["u1"].success_count = 2
    /\ P_report \in DOMAIN stored /\ get.body = B_short

\* ascending order of code points, shorter before longer on a common prefix
Before(a, b) ==
    \E k \in 1..(Len(b)) :
        /\ k <= Len(a) + 1
        /\ \A i \in 1..(k - 1) : a[i] = b[i]
        /\ k = Len(a) + 1 \/ CodeOf(a[k]) < CodeOf(b[k])

RowName(r) == IF r.kind = "dir" THEN SubSeq(r.label, 1, Len(r.label) - 1) ELSE r.label

C9_Rows(r, d) ==
    /\ Len(r) = Len(d)
    /\ \A i \in 1..Len(d) : \E j \in 1..Len(r) :
          RowName(r[j]) = d[i].name /\ (r[j].kind = "dir") = d[i].is_dir
    /\ \A i, j \in 1..Len(r) : i < j =>
          /\ r[j].kind = "dir" => r[i].kind = "dir"
          /\ r[i].kind = r[j].kind => Before(RowName(r[i]), RowName(r[j]))
    /\ d = <<>> => r = <<>>

\* C9: the rows of a listing are the directories in ascending code point
\* order of name (upper case before lower case), then the entries that are
\* not directories in the same order, every child exactly once; an empty
\* directory gives no rows.
C9_Listing ==
    (rows # NoRows /\ rows[1].ok) => C9_Rows(rows[1].file_rows, dir)

C9_Witness ==
    /\ rows # NoRows /\ rows[1].ok
    /\ Len(dir) = 3
    /\ dir[1].name = <<"a">> /\ dir[1].is_file
    /\ dir[2].name = <<"a", "b">> /\ dir[2].is_dir
    /\ dir[3].name = <<"Z">> /\ dir[3].is_dir
    /\ rows[1].file_rows[1].label = <<"Z", "/">>
    /\ rows[1].file_rows[2].label = <<"a", "b", "/">>
    /\ rows[1].file_rows[3].label = <<"a">>

\* the largest i <= 4 with 1024^i <= n, and 0 when n < 1024
ExpectedUnit(l) ==
    IF l[5] # 0 \/ l[6] # 0 \/ l[7] # 0 THEN 4
    ELSE IF l[4] # 0 THEN 3
    ELSE IF l[3] # 0 THEN 2
    ELSE IF l[2] # 0 THEN 1
    ELSE 0

SpaceAt(t) == CHOOSE i \in 1..Len(t) : t[i] = " "

UnitOf(t) == SubSeq(t, SpaceAt(t) + 1, Len(t))

NumberOf(t) == SubSeq(t, 1, SpaceAt(t) - 1)

WholeNumber(s) ==
    /\ Len(s) >= 1
    /\ \A i \in 1..Len(s) : s[i] \in {"0", "1", "2", "3", "4", "5", "6", "7", "8", "9"}

WithOneDecimal(s) ==
    /\ Len(s) >= 3 /\ s[Len(s) - 1] = "."
    /\ WholeNumber(SubSeq(s, 1, Len(s) - 2)) /\ WholeNumber(<<s[Len(s)]>>)

\* C10: format_file_size(n) names the largest unit of B, KB, MB, GB, TB
\* whose threshold 1024^i is at most n (B below 1024, TB at most); below
\* 1024 it writes the whole number of bytes, above it a number with exactly
\* one decimal; 0 -> "0 B", 1023 -> "1023 B", 1024 -> "1.0 KB", 1536 ->
\* "1.5 KB", 1024*1024 -> "1.0 MB".
C10_Format ==
    text # NoText =>
        /\ UnitOf(text) = UNITS[ExpectedUnit(size) + 1]
        /\ ExpectedUnit(size) = 0 => text = Digits(size[1]) \o <<" ", "B">>
        /\ ExpectedUnit(size) > 0 => WithOneDecimal(NumberOf(text))
        /\ size = LenU64(0) => text = <<"0", " ", "B">>
        /\ size = LenU64(1023) => text = <<"1", "0", "2", "3", " ", "B">>
        /\ size = LenU64(1024) => text = <<"1", ".", "0", " ", "K", "B">>
        /\ size = LenU64(1536) => text = <<"1", ".", "5", " ", "K", "B">>
        /\ size = LenU64(1024 * 1024) => text = <<"1", ".", "0", " ", "M", "B">>

C10_Witness ==
    /\ size = LenU64(1024 * 1024)
    /\ text = <<"1", ".", "0", " ", "M", "B">>

Octet == "application/octet-stream"

\* the fixed table, extension and content type
MimeTable ==
    {<<X_html, "text/html; charset=utf-8">>, <<X_htm, "text/html; charset=utf-8">>,
     <<X_css, "text/css; charset=utf-8">>,
     <<X_js, "application/javascript; charset=utf-8">>,
     <<X_json, "application/json; charset=utf-8">>,
     <<X_xml, "application/xml; charset=utf-8">>,
     <<X_txt, "text/plain; charset=utf-8">>, <<X_md, "text/markdown; charset=utf-8">>,
     <<X_png, "image/png">>, <<X_jpg, "image/jpeg">>, <<X_jpeg, "image/jpeg">>,
     <<X_gif, "image/gif">>, <<X_svg, "image/svg+xml">>, <<X_ico, "image/x-icon">>,
     <<X_pdf, "application/pdf">>, <<X_zip, "application/zip">>,
     <<X_tar, "application/x-tar">>, <<X_gz, "application/gzip">>,
     <<X_mp4, "video/mp4">>, <<X_mp3, "audio/mpeg">>, <<X_wav, "audio/wav">>}

\* the table entry of extension x, Octet when it has none
Looked(x) ==
    /\ \A e \in MimeTable : x = e[1] => ctype = e[2]
    /\ (\A e \in MimeTable : x # e[1]) => ctype = Octet

\* C11 as stated: guess_content_type looks the lowercased extension up, so
\* every upper/lower-case spelling of a table extension ("txt", "TXT",
\* "Txt") gets that entry's content type, and every unknown or missing
\* extension gets "application/octet-stream".
C11_LowercasedLookup ==
    ctype # NoType => Looked(AllLower(Extension(fpath)))

\* C11, amended: guess_content_type looks the extension up as it is spelled,
\* without folding its case: the lower-case spelling of a table extension
\* gets that entry's content type, and every other spelling of it ("TXT",
\* "Txt"), like every unknown or missing extension, gets
\* "application/octet-stream".
C11_ExactLookup ==
    ctype # NoType =>
        /\ Looked(Extension(fpath))
        /\ (\E e \in MimeTable : Extension(fpath) # e[1] /\ AllLower(Extension(fpath)) = e[1])
              => ctype = Octet
        /\ fpath = <<"f", ".", "t", "x", "t">> => ctype = "text/plain; charset=utf-8"
        /\ fpath = <<"f", ".", "T", "X", "T">> => ctype = Octet
        /\ fpath = <<"f", ".", "T", "x", "t">> => ctype = Octet
        /\ fpath = <<"f">> => ctype = Octet

C11_Witness ==
    /\ fpath = <<"d", "/", "f", ".", "J", "P", "G">>
    /\ ctype = Octet

FilePart(f) == f.name = "file" /\ f.file_name # None

\* what the first loop leaves behind, and the answer when it found no field
C12_Scanned ==
    \A u \in Uploaders :
        /\ up[u].pc = "scan" =>
              /\ ~up[u].found /\ up[u].touched = {}
              /\ up[u].total_files = 0 /\ up[u].success_count = 0 /\ up[u].failed = 0
        /\ (up[u].total_files > 0 \/ up[u].touched # {}) => up[u].found
        /\ (up[u].pc \in {"files", "create", "write", "done"} /\ ~up[u].found) =>
              /\ up[u].eof /\ up[u].current_path = EmptyStr
              /\ up[u].total_files = 0 /\ up[u].touched = {}
        /\ (up[u].pc = "done" /\ ~up[u].found) =>
              /\ up[u].status = 303 /\ up[u].location = <<"/">>
              /\ up[u].message = <<T_failed>>

\* one pass over the parts: dropped in the first loop, counted in the second
C12_OnePass ==
    \A u \in Uploaders :
        /\ up'[u].nparts >= up[u].nparts
        /\ (up[u].pc = "scan" /\ up'[u].pc = "scan") =>
              /\ fs' = fs /\ up'[u].total_files = up[u].total_files
        /\ up[u].eof => (up'[u].eof /\ up'[u].nparts = up[u].nparts /\ fs' = fs)
        /\ up[u].pc \in {"files", "create", "write", "done"} =>
              /\ up'[u].current_path = up[u].current_path
              /\ up'[u].target_dir = up[u].target_dir
              /\ up'[u].found = up[u].found
        /\ up'[u].total_files # up[u].total_files =>
              /\ up'[u].total_files = up[u].total_files + 1
              /\ up[u].pc = "files" /\ up[u].found /\ FilePart(up'[u].field)
              /\ up'[u].nparts = up[u].nparts + 1
        /\ (up[u].pc = "files" /\ up'[u].nparts = up[u].nparts + 1 /\ FilePart(up'[u].field))
              => up'[u].total_files = up[u].total_files + 1

\* C12: upload_handler reads the multipart stream once, in two loops one
\* after the other: every part before the first readable current_path
\* field, file parts too, is dropped, neither counted in total_files nor
\* written; only file parts after that field are counted and written; and
\* with no current_path field the first loop takes every part, nothing is
\* written, total_files stays 0 and the answer is 303 to "/" with the
\* upload-failed message.
C12_TwoLoops == []C12_Scanned /\ [][C12_OnePass]_vars

C12_Witness ==
    /\ up["u1"].pc = "done" /\ ~up["u1"].found
    /\ up["u1"].nparts = 3 /\ up["u1"].field = Field("file", S_report)
    /\ up["u1"].total_files = 0 /\ up["u1"].status = 303
    /\ up["u1"].message = <<T_failed>>

====
